---- MODULE Spec2Model ----
(***************************************************************************)
(* State-machine model of bilibili-tui: the application turn loop          *)
(* (src/app/mod.rs), the QR login page (src/ui/login.rs), the poll status  *)
(* mapping (src/api/auth.rs), credential storage (src/storage/mod.rs), the *)
(* external player (src/player/mod.rs) and the home page (src/ui/home.rs). *)
(*                                                                         *)
(* Option<T> is modelled as a sequence: <<>> is None, <<x>> is Some(x).    *)
(* Every .await of the turn loop is a point where the loop is suspended:   *)
(* the login page's two network calls are split at the await into an issue *)
(* step and a resolve step, with pc naming the suspended call.             *)
(***************************************************************************)
EXTENDS Integers, Sequences, FiniteSets, TLC

\* ---------------------------------------------------------------- bounds
MaxTime == 9
MaxKeys == 2
MaxVideos == 4
MaxCookies == 4
MaxText == 3
MaxParams == 3
MaxPieces == 5
MaxQuery == 2

\* ------------------------------------------------------------- constants
\* Duration::from_secs(2), in seconds
PollInterval == 2
\* HomePage::new: columns
Columns == 3
\* the visible row count handed to update_scroll by handle_input
VisibleRows == 3

None == <<>>
Some(x) == <<x>>

\* ------------------------------------------------- api/auth.rs: statuses
Waiting == [tag |-> "Waiting"]
Scanned == [tag |-> "Scanned"]
Success == [tag |-> "Success"]
Expired == [tag |-> "Expired"]
Unknown(code) == [tag |-> "Unknown", code |-> code]

\* a plausible slip: the catch-all arm swallows the Scanned code
FromCodeNoScanned(code) ==
  CASE code = 86101 -> Waiting
    [] code = 0 -> Success
    [] code = 86038 -> Expired
    [] OTHER -> Unknown(code)

\* a plausible slip: the Expired code is not recognised
FromCodeNoExpired(code) ==
  CASE code = 86101 -> Waiting
    [] code = 86090 -> Scanned
    [] code = 0 -> Success
    [] OTHER -> Unknown(code)

\* a plausible slip: the catch-all arm does not keep the code
FromCodeDropsCode(code) ==
  CASE code = 86101 -> Waiting
    [] code = 86090 -> Scanned
    [] code = 0 -> Success
    [] code = 86038 -> Expired
    [] OTHER -> Unknown(0)

\* a plausible slip: a code outside the protocol ends the challenge
FromCodeUnknownExpires(code) ==
  CASE code = 86101 -> Waiting
    [] code = 86090 -> Scanned
    [] code = 0 -> Success
    [] OTHER -> Expired

\* impl From<i32> for QrcodePollStatus
FromCode(code) ==
  CASE code = 86101 -> Waiting
    [] code = 86090 -> Scanned
    [] code = 0 -> Success
    [] code = 86038 -> Expired
    [] OTHER -> Unknown(code)

\* the poll codes the server is taken to answer with: the four named codes
\* and one code outside the protocol
Codes == {0, 86038, 86090, 86101, 86100}

\* ------------------------------------------- storage/mod.rs: credentials
\* a cookie is <<name, value>>
CookieLists ==
  { << <<"SESSDATA", "a">>, <<"bili_jct", "b">>, <<"DedeUserID", "c">> >>,
    << <<"DedeUserID", "c">>, <<"x", "y">>, <<"SESSDATA", "a">>,
       <<"bili_jct", "b">>, <<"DedeUserID__ckMd5", "d">>, <<"SESSDATA", "e">> >>,
    << <<"bili_jct", "b">>, <<"DedeUserID", "c">> >>,
    << <<"SESSDATA", "a">>, <<"DedeUserID", "c">>, <<"DedeUserID__ckMd5", "d">> >>,
    << <<"SESSDATA", "a">>, <<"bili_jct", "b">>, <<"sessdata", "a">> >>,
    << >> }

RefreshTokens == {"rt", "rt2"}

\* the for loop of from_cookies: the four accumulators after the scan
RECURSIVE ScanCookies(_, _)
ScanCookies(cookies, acc) ==
  IF cookies = << >> THEN acc
  ELSE LET name == Head(cookies)[1]
           value == Head(cookies)[2]
           next ==
             CASE name = "SESSDATA" -> [acc EXCEPT !.sessdata = Some(value)]
               [] name = "bili_jct" -> [acc EXCEPT !.bili_jct = Some(value)]
               [] name = "DedeUserID" -> [acc EXCEPT !.dede_user_id = Some(value)]
               [] name = "DedeUserID__ckMd5" ->
                    [acc EXCEPT !.dede_user_id_ckmd5 = Some(value)]
               [] OTHER -> acc
       IN ScanCookies(Tail(cookies), next)

EmptyScan ==
  [sessdata |-> None, bili_jct |-> None, dede_user_id |-> None,
   dede_user_id_ckmd5 |-> None]

\* a plausible slip: a missing mandatory cookie defaults to the empty string
\* instead of failing the construction
FromCookiesDefaulting(cookies, refresh_token) ==
  LET s == ScanCookies(cookies, EmptyScan)
      get(o) == IF o = None THEN "" ELSE o[1]
  IN Some([sessdata |-> get(s.sessdata), bili_jct |-> get(s.bili_jct),
           dede_user_id |-> get(s.dede_user_id),
           dede_user_id_ckmd5 |-> s.dede_user_id_ckmd5,
           refresh_token |-> refresh_token])

\* a plausible slip: the first occurrence of a name wins, not the last
FromCookiesFirstWins(cookies, refresh_token) ==
  LET reversed == [i \in 1..Len(cookies) |-> cookies[Len(cookies) + 1 - i]]
      s == ScanCookies(reversed, EmptyScan)
  IN IF s.sessdata = None \/ s.bili_jct = None \/ s.dede_user_id = None
     THEN None
     ELSE Some([sessdata |-> s.sessdata[1], bili_jct |-> s.bili_jct[1],
                dede_user_id |-> s.dede_user_id[1],
                dede_user_id_ckmd5 |-> s.dede_user_id_ckmd5,
                refresh_token |-> refresh_token])

\* a plausible slip: the refresh token of the response is not kept
FromCookiesNoToken(cookies, refresh_token) ==
  LET s == ScanCookies(cookies, EmptyScan)
  IN IF s.sessdata = None \/ s.bili_jct = None \/ s.dede_user_id = None
     THEN None
     ELSE Some([sessdata |-> s.sessdata[1], bili_jct |-> s.bili_jct[1],
                dede_user_id |-> s.dede_user_id[1],
                dede_user_id_ckmd5 |-> s.dede_user_id_ckmd5,
                refresh_token |-> None])

\* Credentials::from_cookies
FromCookies(cookies, refresh_token) ==
  LET s == ScanCookies(cookies, EmptyScan)
  IN IF s.sessdata = None \/ s.bili_jct = None \/ s.dede_user_id = None
     THEN None
     ELSE Some([sessdata |-> s.sessdata[1], bili_jct |-> s.bili_jct[1],
                dede_user_id |-> s.dede_user_id[1],
                dede_user_id_ckmd5 |-> s.dede_user_id_ckmd5,
                refresh_token |-> refresh_token])

\* The credentials file. <<>> is "no file"; <<doc>> is a file holding doc,
\* where doc.object is the parsed JSON object (a function from member names
\* to JSON values, <<>> being null and <<s>> the string s) and doc.json says
\* whether the text is JSON at all.
Mandatory == {"sessdata", "bili_jct", "dede_user_id"}
Optional == {"dede_user_id_ckmd5", "refresh_token"}

\* a plausible slip: the refresh token is not written
ToJsonDropsToken(c) ==
  [json |-> TRUE,
   object |-> [k \in Mandatory \cup Optional |->
                 CASE k = "sessdata" -> Some(c.sessdata)
                   [] k = "bili_jct" -> Some(c.bili_jct)
                   [] k = "dede_user_id" -> Some(c.dede_user_id)
                   [] k = "dede_user_id_ckmd5" -> c.dede_user_id_ckmd5
                   [] OTHER -> None]]

\* serde_json::to_string_pretty(credentials) of save_credentials
ToJson(c) ==
  [json |-> TRUE,
   object |-> [k \in Mandatory \cup Optional |->
                 CASE k = "sessdata" -> Some(c.sessdata)
                   [] k = "bili_jct" -> Some(c.bili_jct)
                   [] k = "dede_user_id" -> Some(c.dede_user_id)
                   [] k = "dede_user_id_ckmd5" -> c.dede_user_id_ckmd5
                   [] OTHER -> c.refresh_token]]

Ok(v) == [ok |-> TRUE, value |-> v]
Err(e) == [ok |-> FALSE, error |-> e]

\* a plausible slip: an unreadable file is reported like a missing one
LoadCredentialsOneError(f) ==
  IF f = None THEN Err("NotFound")
  ELSE LET doc == f[1]
           member(k) == IF k \in DOMAIN doc.object THEN doc.object[k] ELSE None
       IN IF ~doc.json \/ \E k \in Mandatory : member(k) = None
          THEN Err("NotFound")
          ELSE Ok([sessdata |-> member("sessdata")[1],
                   bili_jct |-> member("bili_jct")[1],
                   dede_user_id |-> member("dede_user_id")[1],
                   dede_user_id_ckmd5 |-> member("dede_user_id_ckmd5"),
                   refresh_token |-> member("refresh_token")])

\* a plausible slip: a missing mandatory member is read as an empty string
LoadCredentialsLenient(f) ==
  IF f = None THEN Err("NotFound")
  ELSE LET doc == f[1]
           member(k) == IF k \in DOMAIN doc.object THEN doc.object[k] ELSE None
           text(k) == IF member(k) = None THEN "" ELSE member(k)[1]
       IN IF ~doc.json
          THEN Err("Corrupt")
          ELSE Ok([sessdata |-> text("sessdata"),
                   bili_jct |-> text("bili_jct"),
                   dede_user_id |-> text("dede_user_id"),
                   dede_user_id_ckmd5 |-> member("dede_user_id_ckmd5"),
                   refresh_token |-> member("refresh_token")])

\* load_credentials: read_to_string, then serde_json::from_str
LoadCredentials(f) ==
  IF f = None THEN Err("NotFound")
  ELSE LET doc == f[1]
           member(k) == IF k \in DOMAIN doc.object THEN doc.object[k] ELSE None
       IN IF ~doc.json \/ \E k \in Mandatory : member(k) = None
          THEN Err("Corrupt")
          ELSE Ok([sessdata |-> member("sessdata")[1],
                   bili_jct |-> member("bili_jct")[1],
                   dede_user_id |-> member("dede_user_id")[1],
                   dede_user_id_ckmd5 |-> member("dede_user_id_ckmd5"),
                   refresh_token |-> member("refresh_token")])

StoredCredentials ==
  [sessdata |-> "s0", bili_jct |-> "j0", dede_user_id |-> "u0",
   dede_user_id_ckmd5 |-> None, refresh_token |-> Some("rt0")]

\* the credentials file the program may find at start
InitialFiles ==
  { None,
    Some([json |-> FALSE, object |-> << >>]),
    Some([json |-> TRUE,
          object |-> [k \in {"sessdata", "bili_jct"} |-> Some("s0")]]),
    Some(ToJson(StoredCredentials)) }

\* ------------------------------------------------------------------ state
VARIABLES
  \* App (app/mod.rs)
  current_page, should_quit, credentials, client_credentials,
  \* LoginPage (ui/login.rs); meaningful while current_page = "Login"
  qrcode_data, error_message, poll_status, last_poll,
  \* HomePage (ui/home.rs); meaningful while current_page = "Home"
  videos, selected_index, scroll_row, loading, home_error, images_loaded,
  \* the file system: credentials.json and cookies.txt
  file, cookie_file,
  \* the turn loop: its position, where it resumes after load_qrcode, the
  \* action App::tick got from LoginPage::tick, the monotonic clock (seconds)
  \* and the network calls awaiting their response
  pc, resume, action, now, inflight,
  \* history: challenge keys handed out so far, keys of replaced pages, the
  \* codes sampled by the latest login page with the status each one left,
  \* the start time of its previous poll call, its last sample, the
  \* cookies of the login that succeeded,
  \* the arguments of save_credentials so far, and how the last play_video
  \* call went
  next_key, discarded, code_hist, status_hist, prev_issue, last_sample,
  login_cookies, save_args, last_play,
  \* history: the time at which the latest poll call of the page returned
  poll_done,
  \* the pure functions, each applied to inputs of its own: from_cookies
  \* (a cookie list, a refresh token, the result), save_credentials and
  \* load_credentials (the value saved, the file, the result of the load),
  \* url_encode (a text and its encoding), get_mixin_key and
  \* encode_wbi_with_timestamp (the parameters, the key pair, the timestamp,
  \* the mixin key and the signed string)
  ck_cookies, ck_token, ck_result,
  st_value, st_file, st_loaded,
  enc_text, enc_out,
  wbi_params, wbi_keys, wbi_ts, wbi_mixin, wbi_signed,
  \* extract_key_from_url (a URL and the result)
  url_text, url_key,
  \* one page component driven on its own (SearchPage, DynamicPage or
  \* HomePage): which page, its item list, selected_index, scroll_row (Home),
  \* input_mode and the length of query (Search), loading
  pg_page, pg_items, pg_selected, pg_scroll, pg_input_mode, pg_query, pg_loading

app_vars == <<current_page, should_quit, credentials, client_credentials>>
login_vars == <<qrcode_data, error_message, poll_status, last_poll>>
home_vars ==
  <<videos, selected_index, scroll_row, loading, home_error, images_loaded>>
fs_vars == <<file, cookie_file>>
loop_vars == <<pc, resume, action, now, inflight>>
hist_vars ==
  <<next_key, discarded, code_hist, status_hist, prev_issue, poll_done,
    last_sample,
    login_cookies, save_args, last_play>>
session_hist == <<code_hist, status_hist, prev_issue, poll_done, last_sample>>
program_vars ==
  <<app_vars, login_vars, home_vars, fs_vars, loop_vars, hist_vars>>
cookie_vars == <<ck_cookies, ck_token, ck_result>>
store_vars == <<st_value, st_file, st_loaded>>
encode_vars == <<enc_text, enc_out>>
wbi_vars == <<wbi_params, wbi_keys, wbi_ts, wbi_mixin, wbi_signed>>
url_vars == <<url_text, url_key>>
page_vars ==
  <<pg_page, pg_items, pg_selected, pg_scroll, pg_input_mode, pg_query,
    pg_loading>>
alone_vars == <<url_vars, page_vars>>
pure_vars == <<cookie_vars, store_vars, encode_vars, wbi_vars, alone_vars>>
vars == <<program_vars, pure_vars>>

\* LoginPage::new
LoginPageNew ==
  /\ qrcode_data' = None
  /\ error_message' = None
  /\ poll_status' = Waiting
  /\ last_poll' = None
  /\ code_hist' = << >>
  /\ status_hist' = << >>
  /\ prev_issue' = None
  /\ poll_done' = None
  /\ last_sample' = None

\* the answers of get_recommendations: a transport error or a list of
\* videos, a video being modelled by its bvid: Option<String>
\* (the second video of a list is the one without bvid)
VideoLists ==
  {[i \in 1..n |-> IF i = 2 THEN None ELSE Some("BV1")] : n \in 0..MaxVideos}

\* HomePage::new followed by load_recommendations, whose call answers r
HomePageLoad(r) ==
  /\ images_loaded' = FALSE
  /\ selected_index' = 0
  /\ scroll_row' = 0
  /\ loading' = FALSE
  /\ IF r.ok
     THEN videos' = r.value /\ home_error' = None
     ELSE videos' = << >> /\ home_error' = Some("load_recommendations")

RecommendResults == {Err("transport")} \cup {Ok(v) : v \in VideoLists}

\* no pure function has been applied
CookieIdle == ck_cookies = << >> /\ ck_token = None /\ ck_result = None
StoreIdle == st_value = None /\ st_file = None /\ st_loaded = None
EncodeIdle == enc_text = << >> /\ enc_out = << >>
WbiIdle ==
  /\ wbi_params = << >> /\ wbi_keys = << >> /\ wbi_ts = 0
  /\ wbi_mixin = None /\ wbi_signed = None
UrlIdle == url_text = << >> /\ url_key = None
PageIdle ==
  /\ pg_page = "none" /\ pg_items = << >> /\ pg_selected = 0 /\ pg_scroll = 0
  /\ pg_input_mode = FALSE /\ pg_query = 0 /\ pg_loading = FALSE

\* App::new
AppNew ==
  /\ file \in InitialFiles
  /\ cookie_file = FALSE
  /\ LET loaded == LoadCredentials(file)
     IN /\ credentials = IF loaded.ok THEN Some(loaded.value) ELSE None
        /\ client_credentials = credentials
        /\ current_page = IF loaded.ok THEN "Home" ELSE "Login"
  /\ should_quit = FALSE
  /\ qrcode_data = None /\ error_message = None
  /\ poll_status = Waiting /\ last_poll = None
  /\ videos = << >> /\ selected_index = 0 /\ scroll_row = 0
  /\ loading = TRUE /\ home_error = None /\ images_loaded = FALSE
  /\ pc = "init" /\ resume = "input" /\ action = None
  /\ now = 0 /\ inflight = << >>
  /\ next_key = 1 /\ discarded = {}
  /\ code_hist = << >> /\ status_hist = << >>
  /\ prev_issue = None /\ poll_done = None /\ last_sample = None
  /\ login_cookies = None /\ save_args = << >> /\ last_play = None

Init ==
  AppNew /\ CookieIdle /\ StoreIdle /\ EncodeIdle /\ WbiIdle /\ UrlIdle /\ PageIdle

\* the clock advances, also while a call is awaited; only LoginPage::tick
\* reads it, so it is left alone once the login page is gone
Advance ==
  /\ pc # "done"
  /\ current_page = "Login"
  /\ now < MaxTime
  /\ now' = now + 1
  /\ UNCHANGED <<app_vars, login_vars, home_vars, fs_vars, pc, resume, action,
                 inflight, hist_vars>>
  /\ UNCHANGED pure_vars

\* a detached call: the loop goes on without waiting for the response
Detach(call) == "tick"

\* call(...).await: the loop is suspended at the call until it resolves
Await(call) == call

\* init_current_page, Login arm: load_qrcode up to the await of
\* get_qrcode_data; the loop resumes at r
IssueLoadQrcode(r) ==
  /\ pc' = Await("load_qrcode")
  /\ resume' = r
  /\ inflight' = Append(inflight, [call |-> "get_qrcode_data"])

\* App::run: init_current_page before the loop
InitLogin ==
  /\ pc = "init"
  /\ current_page = "Login"
  /\ IssueLoadQrcode("input")
  /\ UNCHANGED <<app_vars, login_vars, home_vars, fs_vars, action, now, hist_vars>>
  /\ UNCHANGED pure_vars

InitHome ==
  /\ pc = "init"
  /\ current_page = "Home"
  /\ \E r \in RecommendResults : HomePageLoad(r)
  /\ pc' = "input"
  /\ UNCHANGED <<app_vars, login_vars, fs_vars, resume, action, now, inflight,
                 hist_vars>>
  /\ UNCHANGED pure_vars

\* load_qrcode after the await: Ok(data) with a fresh challenge key
LoadQrcodeOk ==
  /\ pc = "load_qrcode"
  /\ next_key <= MaxKeys
  /\ qrcode_data' = Some(next_key)
  /\ error_message' = None
  /\ poll_status' = Waiting
  /\ last_poll' = None
  /\ next_key' = next_key + 1
  /\ inflight' = Tail(inflight)
  /\ pc' = resume
  /\ UNCHANGED <<app_vars, home_vars, fs_vars, resume, action, now, discarded,
                 session_hist, login_cookies, save_args, last_play>>
  /\ UNCHANGED pure_vars

\* a plausible slip: a failed challenge request is issued again at once
LoadQrcodeErrRetry ==
  /\ pc = "load_qrcode"
  /\ error_message' = Some("load_qrcode")
  /\ inflight' = Append(Tail(inflight), [call |-> "get_qrcode_data"])
  /\ pc' = "load_qrcode"
  /\ UNCHANGED <<app_vars, qrcode_data, poll_status, last_poll, home_vars,
                 fs_vars, resume, action, now, hist_vars>>
  /\ UNCHANGED pure_vars

\* load_qrcode after the await: Err(e)
LoadQrcodeErr ==
  /\ pc = "load_qrcode"
  /\ error_message' = Some("load_qrcode")
  /\ inflight' = Tail(inflight)
  /\ pc' = resume
  /\ UNCHANGED <<app_vars, qrcode_data, poll_status, last_poll, home_vars,
                 fs_vars, resume, action, now, hist_vars>>
  /\ UNCHANGED pure_vars

\* App::run: the loop condition, evaluated after tick
LoopNext(quit) == IF quit THEN "done" ELSE "input"

\* App::run: event::poll times out, the event is not a key press, or the
\* page's handle_input maps the key to AppAction::None without a change
\* (LoginPage: any key but 'q' and 'r'; HomePage: Enter without a selected
\* bvid, any key it does not name)
NoEvent ==
  /\ pc = "input"
  /\ pc' = "tick"
  /\ UNCHANGED <<app_vars, login_vars, home_vars, fs_vars, resume, action, now,
                 inflight, hist_vars>>
  /\ UNCHANGED pure_vars

\* ----------------------------------------------------- ui/login.rs: keys
\* LoginPage::handle_input 'q', then handle_action(Quit)
LoginKeyQuit ==
  /\ pc = "input"
  /\ current_page = "Login"
  /\ should_quit' = TRUE
  /\ pc' = "tick"
  /\ UNCHANGED <<current_page, credentials, client_credentials, login_vars,
                 home_vars, fs_vars, resume, action, now, inflight, hist_vars>>
  /\ UNCHANGED pure_vars

\* LoginPage::handle_input 'r', then handle_action(SwitchToLogin): the page
\* is replaced by LoginPage::new() and init_current_page loads a challenge
LoginKeyRefresh ==
  /\ pc = "input"
  /\ current_page = "Login"
  /\ LoginPageNew
  /\ discarded' = discarded \cup {qrcode_data[i] : i \in DOMAIN qrcode_data}
  /\ IssueLoadQrcode("tick")
  /\ UNCHANGED <<app_vars, home_vars, fs_vars, action, now, next_key, login_cookies,
                 save_args, last_play>>
  /\ UNCHANGED pure_vars

\* ----------------------------------------------------- ui/login.rs: tick
\* a plausible slip: only Success ends the polling
FinishedOnlySuccess(status) == status = Success

\* matches!(self.poll_status, Success | Expired)
Finished(status) == status \in {Success, Expired}

\* a plausible slip: the interval is not enforced once a poll was made
ShouldPollAlways(last, t) == TRUE

\* last_poll.map(|t| t.elapsed() > Duration::from_secs(2)).unwrap_or(true)
ShouldPoll(last, t) ==
  IF last = None THEN TRUE ELSE t - last[1] > PollInterval

\* a plausible slip: the key of the first challenge is kept for polling
TickKeyFirst(data) == 1

\* data.qrcode_key.clone() of the challenge the page holds
TickKey(data) == data[1]

\* LoginPage::tick returns None without a network call: no challenge, a
\* finished status, or the interval has not elapsed
TickNoPoll ==
  /\ pc = "tick"
  /\ current_page = "Login"
  /\ \/ qrcode_data = None
     \/ Finished(poll_status)
     \/ ~ShouldPoll(last_poll, now)
  /\ pc' = LoopNext(should_quit)
  /\ UNCHANGED <<app_vars, login_vars, home_vars, fs_vars, resume, action, now,
                 inflight, hist_vars>>
  /\ UNCHANGED pure_vars

\* LoginPage::tick up to the await of poll_qrcode
TickPoll ==
  /\ pc = "tick"
  /\ current_page = "Login"
  /\ qrcode_data # None
  /\ ~Finished(poll_status)
  /\ ShouldPoll(last_poll, now)
  /\ last_poll' = Some(now)
  /\ prev_issue' = Some(now)
  /\ inflight' =
       Append(inflight, [call |-> "poll_qrcode", key |-> TickKey(qrcode_data)])
  /\ pc' = Await("poll_qrcode")
  /\ UNCHANGED <<app_vars, qrcode_data, error_message, poll_status, home_vars,
                 fs_vars, resume, action, now, next_key, discarded, code_hist,
                 status_hist, poll_done, last_sample, login_cookies, save_args,
                 last_play>>
  /\ UNCHANGED pure_vars

\* the answers of poll_qrcode: a transport error, a response without data,
\* or data with its code, its refresh_token and the response cookies (the
\* server sets cookies with code 0 only)
PollData ==
  {[code |-> c, refresh_token |-> t, cookies |-> k] :
     c \in Codes \ {0}, t \in RefreshTokens, k \in {<< >>}}
  \cup {[code |-> 0, refresh_token |-> t, cookies |-> k] :
          t \in RefreshTokens, k \in CookieLists}

\* LoginPage::tick after the await: Err(e)
PollErr ==
  /\ pc = "poll_qrcode"
  /\ poll_done' = Some(now)
  /\ error_message' = Some("poll_qrcode")
  /\ inflight' = Tail(inflight)
  /\ last_sample' = None
  /\ pc' = LoopNext(should_quit)
  /\ UNCHANGED <<app_vars, qrcode_data, poll_status, last_poll, home_vars,
                 fs_vars, resume, action, now, next_key, discarded, code_hist,
                 status_hist, prev_issue, login_cookies, save_args, last_play>>
  /\ UNCHANGED pure_vars

\* a plausible slip: a call without a sample does not count for the pacing
PollNoDataNotCounted ==
  /\ pc = "poll_qrcode"
  /\ poll_done' = Some(now)
  /\ inflight' = Tail(inflight)
  /\ last_sample' = None
  /\ last_poll' = None
  /\ pc' = LoopNext(should_quit)
  /\ UNCHANGED <<app_vars, qrcode_data, error_message, poll_status, home_vars,
                 fs_vars, resume, action, now, next_key, discarded, code_hist,
                 status_hist, prev_issue, login_cookies, save_args, last_play>>
  /\ UNCHANGED pure_vars

\* LoginPage::tick after the await: Ok(result) with result.data = None
PollNoData ==
  /\ pc = "poll_qrcode"
  /\ poll_done' = Some(now)
  /\ inflight' = Tail(inflight)
  /\ last_sample' = None
  /\ pc' = LoopNext(should_quit)
  /\ UNCHANGED <<app_vars, login_vars, home_vars, fs_vars, resume, action, now,
                 next_key, discarded, code_hist, status_hist, prev_issue,
                 login_cookies, save_args, last_play>>
  /\ UNCHANGED pure_vars

\* a plausible slip: a sample clears the error of an earlier poll call
PollSampleClearsError(d) ==
  /\ pc = "poll_qrcode"
  /\ poll_done' = Some(now)
  /\ \/ FromCode(d.code) # Success
     \/ FromCookies(d.cookies, Some(d.refresh_token)) = None
  /\ poll_status' = FromCode(d.code)
  /\ error_message' = None
  /\ code_hist' = Append(code_hist, d.code)
  /\ status_hist' = Append(status_hist, poll_status')
  /\ last_sample' = Some([code |-> d.code, cookies |-> d.cookies,
                          status |-> poll_status', action |-> "None",
                          key |-> Head(inflight).key])
  /\ inflight' = Tail(inflight)
  /\ pc' = LoopNext(should_quit)
  /\ UNCHANGED <<app_vars, qrcode_data, last_poll, home_vars,
                 fs_vars, resume, action, now, next_key, discarded, prev_issue,
                 login_cookies, save_args, last_play>>
  /\ UNCHANGED pure_vars

\* LoginPage::tick after the await: Ok(result) with data d, where tick
\* returns None (the status is not Success, or from_cookies returns None)
PollSample(d) ==
  /\ pc = "poll_qrcode"
  /\ poll_done' = Some(now)
  /\ \/ FromCode(d.code) # Success
     \/ FromCookies(d.cookies, Some(d.refresh_token)) = None
  /\ poll_status' = FromCode(d.code)
  /\ code_hist' = Append(code_hist, d.code)
  /\ status_hist' = Append(status_hist, poll_status')
  /\ last_sample' = Some([code |-> d.code, cookies |-> d.cookies,
                          status |-> poll_status', action |-> "None",
                          key |-> Head(inflight).key])
  /\ inflight' = Tail(inflight)
  /\ pc' = LoopNext(should_quit)
  /\ UNCHANGED <<app_vars, qrcode_data, error_message, last_poll, home_vars,
                 fs_vars, resume, action, now, next_key, discarded, prev_issue,
                 login_cookies, save_args, last_play>>
  /\ UNCHANGED pure_vars

\* LoginPage::tick after the await: Ok(result) with data d, status Success
\* and credentials built; tick returns Some(LoginSuccess(creds)) to App::tick
PollLoginSuccess(d) ==
  /\ pc = "poll_qrcode"
  /\ poll_done' = Some(now)
  /\ FromCode(d.code) = Success
  /\ FromCookies(d.cookies, Some(d.refresh_token)) # None
  /\ poll_status' = FromCode(d.code)
  /\ action' = FromCookies(d.cookies, Some(d.refresh_token))
  /\ login_cookies' = Some(d.cookies)
  /\ code_hist' = Append(code_hist, d.code)
  /\ status_hist' = Append(status_hist, poll_status')
  /\ last_sample' = Some([code |-> d.code, cookies |-> d.cookies,
                          status |-> poll_status', action |-> "LoginSuccess",
                          key |-> Head(inflight).key,
                          refresh_token |-> d.refresh_token])
  /\ inflight' = Tail(inflight)
  /\ pc' = "handle_action"
  /\ UNCHANGED <<app_vars, qrcode_data, error_message, last_poll, home_vars,
                 fs_vars, resume, now, next_key, discarded, prev_issue,
                 save_args, last_play>>
  /\ UNCHANGED pure_vars

\* a plausible slip: a failed save_credentials abandons the login
HandleLoginSuccessNeedsSave(saved, r) ==
  /\ pc = "handle_action"
  /\ IF saved
     THEN /\ LET creds == action[1]
             IN /\ file' = Some(ToJson(creds))
                /\ save_args' = Append(save_args, creds)
                /\ credentials' = Some(creds)
                /\ client_credentials' = Some(creds)
          /\ current_page' = "Home"
          /\ HomePageLoad(r)
          /\ LoginPageNew
          /\ UNCHANGED <<should_quit, cookie_file, resume, now, inflight,
                         next_key, discarded, login_cookies, last_play>>
     ELSE /\ save_args' = Append(save_args, action[1])
          /\ UNCHANGED <<app_vars, login_vars, home_vars, fs_vars, resume, now,
                         inflight, next_key, discarded, session_hist,
                         login_cookies, last_play>>
  /\ action' = None
  /\ pc' = LoopNext(should_quit)
  /\ UNCHANGED pure_vars

\* App::tick: handle_action(LoginSuccess(creds)): save_credentials (its
\* failure is only printed), the session slot, the client's cookies, the
\* switch to Home (the login page is dropped) and init_current_page, whose
\* get_recommendations call answers r
HandleLoginSuccess(saved, r) ==
  /\ pc = "handle_action"
  /\ LET creds == action[1]
     IN /\ file' = IF saved THEN Some(ToJson(creds)) ELSE file
        /\ save_args' = Append(save_args, creds)
        /\ credentials' = Some(creds)
        /\ client_credentials' = Some(creds)
  /\ action' = None
  /\ current_page' = "Home"
  /\ HomePageLoad(r)
  /\ LoginPageNew
  /\ pc' = LoopNext(should_quit)
  /\ UNCHANGED <<should_quit, cookie_file, resume, now, inflight, next_key,
                 discarded, login_cookies, last_play>>
  /\ UNCHANGED pure_vars

\* ------------------------------------------------------------ ui/home.rs
\* HomePage::update_scroll: the new scroll_row for the selected index
UpdateScroll(index, scroll, visible_rows) ==
  LET current_row == index \div Columns
  IN IF current_row < scroll THEN current_row
     ELSE IF current_row >= scroll + visible_rows
          THEN current_row - visible_rows + 1
          ELSE scroll

\* HomePage::handle_input for the navigation keys: the new selected index
MoveSelection(key, index, len) ==
  CASE key = "j" -> IF len # 0 /\ index + Columns < len
                    THEN index + Columns ELSE index
    [] key = "k" -> IF len # 0 /\ index >= Columns
                    THEN index - Columns ELSE index
    [] key = "l" -> IF len # 0 /\ index + 1 < len THEN index + 1 ELSE index
    [] key = "h" -> IF len # 0 /\ index > 0 THEN index - 1 ELSE index

\* HomePage::handle_input 'j' | 'k' | 'l' | 'h' (and the arrow keys)
HomeKeyMove(key) ==
  /\ pc = "input"
  /\ current_page = "Home"
  /\ selected_index' = MoveSelection(key, selected_index, Len(videos))
  /\ scroll_row' =
       IF (key = "j" /\ Len(videos) # 0) \/ selected_index' # selected_index
       THEN UpdateScroll(selected_index', scroll_row, VisibleRows)
       ELSE scroll_row
  /\ pc' = "tick"
  /\ UNCHANGED <<app_vars, login_vars, videos, loading, home_error,
                 images_loaded, fs_vars, resume, action, now, inflight, hist_vars>>
  /\ UNCHANGED pure_vars

\* a plausible slip: quitting empties the session slot
HomeKeyQuitLogsOut ==
  /\ pc = "input"
  /\ current_page = "Home"
  /\ should_quit' = TRUE
  /\ credentials' = None
  /\ pc' = "tick"
  /\ UNCHANGED <<current_page, client_credentials, login_vars,
                 home_vars, fs_vars, resume, action, now, inflight, hist_vars>>
  /\ UNCHANGED pure_vars

\* HomePage::handle_input 'q', then handle_action(Quit)
HomeKeyQuit ==
  /\ pc = "input"
  /\ current_page = "Home"
  /\ should_quit' = TRUE
  /\ pc' = "tick"
  /\ UNCHANGED <<current_page, credentials, client_credentials, login_vars,
                 home_vars, fs_vars, resume, action, now, inflight, hist_vars>>
  /\ UNCHANGED pure_vars

\* HomePage::handle_input 'r', then handle_action(SwitchToHome): a new
\* HomePage whose get_recommendations call answers r
HomeKeyRefresh ==
  /\ pc = "input"
  /\ current_page = "Home"
  /\ \E r \in RecommendResults : HomePageLoad(r)
  /\ pc' = "tick"
  /\ UNCHANGED <<app_vars, login_vars, fs_vars, resume, action, now, inflight,
                 hist_vars>>
  /\ UNCHANGED pure_vars

\* player/mod.rs play_video: what is left of cookies.txt and what the call
\* returns, for each way the call can go. "export" fails in
\* export_cookies_for_ytdlp, "spawn" in cmd.spawn()?, "wait" in
\* child.wait().await?, "played" reaches the clean-up and Ok(()).
PlayOutcomes == {"export", "spawn", "wait", "played"}

PlayVideo(creds, outcome, cookies_txt) ==
  IF creds = None
  THEN [cookie_file |-> cookies_txt, exported |-> FALSE,
        ok |-> outcome = "played"]
  ELSE CASE outcome = "export" ->
              [cookie_file |-> cookies_txt, exported |-> FALSE, ok |-> FALSE]
         [] outcome = "spawn" ->
              [cookie_file |-> TRUE, exported |-> TRUE, ok |-> FALSE]
         [] outcome = "wait" ->
              [cookie_file |-> TRUE, exported |-> TRUE, ok |-> FALSE]
         [] OTHER ->
              [cookie_file |-> FALSE, exported |-> TRUE, ok |-> TRUE]

\* HomePage::handle_input Enter on a card with a bvid, then
\* handle_action(PlayVideo): play_video, its error only printed
HomeKeyEnterPlay(outcome) ==
  /\ pc = "input"
  /\ current_page = "Home"
  /\ selected_index < Len(videos)
  /\ videos[selected_index + 1] # None
  /\ LET p == PlayVideo(credentials, outcome, cookie_file)
     IN /\ cookie_file' = p.cookie_file
        /\ last_play' = Some([exported |-> p.exported, ok |-> p.ok])
  /\ pc' = "tick"
  /\ UNCHANGED <<app_vars, login_vars, home_vars, file, resume, action, now, inflight,
                 next_key, discarded, session_hist, login_cookies, save_args>>
  /\ UNCHANGED pure_vars

\* App::tick, Home arm: load_visible_covers; whether every visible cover
\* got loaded depends on the downloads
HomeTick ==
  /\ pc = "tick"
  /\ current_page = "Home"
  /\ IF images_loaded \/ videos = << >>
     THEN images_loaded' = images_loaded
     ELSE images_loaded' \in BOOLEAN
  /\ pc' = LoopNext(should_quit)
  /\ UNCHANGED <<app_vars, login_vars, videos, selected_index, scroll_row,
                 loading, home_error, fs_vars, resume, action, now, inflight,
                 hist_vars>>
  /\ UNCHANGED pure_vars

\* ------------------------------------------------------------ the program
Next ==
  \/ Advance
  \/ InitLogin
  \/ InitHome
  \/ LoadQrcodeOk
  \/ LoadQrcodeErr
  \/ NoEvent
  \/ LoginKeyQuit
  \/ LoginKeyRefresh
  \/ TickNoPoll
  \/ TickPoll
  \/ PollErr
  \/ PollNoData
  \/ \E d \in PollData : PollSample(d)
  \/ \E d \in PollData : PollLoginSuccess(d)
  \/ \E saved \in BOOLEAN, r \in RecommendResults :
       HandleLoginSuccess(saved, r)
  \/ \E key \in {"j", "k", "l", "h"} : HomeKeyMove(key)
  \/ HomeKeyQuit
  \/ HomeKeyRefresh
  \/ \E outcome \in PlayOutcomes : HomeKeyEnterPlay(outcome)
  \/ HomeTick

Spec == Init /\ [][Next]_vars

TypeOK ==
  /\ current_page \in {"Login", "Home"}
  /\ should_quit \in BOOLEAN
  /\ pc \in {"init", "input", "tick", "load_qrcode", "poll_qrcode",
            "handle_action", "done"}
  /\ now \in 0..MaxTime
  /\ Len(qrcode_data) <= 1 /\ Len(last_poll) <= 1 /\ Len(credentials) <= 1
  /\ cookie_file \in BOOLEAN

\* ------------------------------------------------------------ properties
MandatoryCookies == {"SESSDATA", "bili_jct", "DedeUserID"}

\* the cookie list names every mandatory cookie
HasAll(cookies) ==
  \A n \in MandatoryCookies : \E i \in DOMAIN cookies : cookies[i][1] = n

ValuesOf(cookies, name) ==
  {cookies[i][2] : i \in {j \in DOMAIN cookies : cookies[j][1] = name}}

\* the step is the arrival of a poll response carrying data
SampleStep ==
  /\ Len(inflight) > 0
  /\ Head(inflight).call = "poll_qrcode"
  /\ Len(inflight') < Len(inflight)
  /\ last_sample' # None

\* the step issues a poll call
PollIssueStep ==
  /\ Len(inflight') > Len(inflight)
  /\ inflight'[Len(inflight')].call = "poll_qrcode"

NamedCodes == {86101, 86090, 0, 86038}

TargetCodes == <<86101, 86101, 86090, 0>>
TargetStatuses == <<Waiting, Waiting, Scanned, Success>>

\* C1: the poll codes 86101, 86101, 86090, 0 (the last with all mandatory
\* cookies) leave the statuses Waiting, Waiting, Scanned, Success in that
\* order and the last one produces the login; code 86038 sampled in Waiting
\* or Scanned leaves Expired; 86090 takes Waiting to Scanned and 86101 takes
\* Scanned back to Waiting.
C1_PollCodesDriveStatus ==
  [][/\ \A n \in 0..4 :
          code_hist' = SubSeq(TargetCodes, 1, n)
            => status_hist' = SubSeq(TargetStatuses, 1, n)
     /\ (SampleStep /\ code_hist' = TargetCodes
           /\ HasAll(last_sample'[1].cookies))
          => poll_status' = Success /\ action' # None
     /\ (SampleStep /\ poll_status \in {Waiting, Scanned}
           /\ last_sample'[1].code = 86038)
          => poll_status' = Expired
     /\ (SampleStep /\ poll_status = Waiting /\ last_sample'[1].code = 86090)
          => poll_status' = Scanned
     /\ (SampleStep /\ poll_status = Scanned /\ last_sample'[1].code = 86101)
          => poll_status' = Waiting]_vars

C1_Witness ==
  /\ current_page = "Login"
  /\ code_hist = TargetCodes
  /\ status_hist = TargetStatuses
  /\ action # None
  /\ pc = "handle_action"

\* the session is over: the status is Success or Expired, or the challenge
\* request failed and the page holds its error and no challenge
Terminal ==
  /\ current_page = "Login"
  /\ \/ poll_status \in {Success, Expired}
     \/ qrcode_data = None /\ error_message # None

\* C2: once the session is Success, Expired or failed, no tick issues a poll
\* call or changes the status, and no poll call carries a key whose last
\* sample was Success or Expired.
C2_TerminalNeverPolls ==
  [][/\ (pc = "tick" /\ Terminal)
          => /\ ~PollIssueStep
             /\ inflight' = inflight
             /\ poll_status' = poll_status
             /\ qrcode_data' = qrcode_data
     /\ (PollIssueStep /\ last_sample # None
           /\ last_sample[1].status \in {Success, Expired})
          => inflight'[Len(inflight')].key # last_sample[1].key]_vars

\* the loop ended on a tick that found the session Expired with the poll
\* interval elapsed, and nothing is in flight
C2_Witness ==
  /\ pc = "done"
  /\ current_page = "Login"
  /\ poll_status = Expired
  /\ last_poll # None
  /\ now - last_poll[1] > PollInterval
  /\ inflight = << >>

\* C3: a sample with code 0 whose cookies lack a mandatory cookie leaves the
\* session failed with a diagnostic and not showing Success, and produces no
\* login-success action.
C3_SuccessWithoutCookiesFails ==
  (/\ current_page = "Login"
   /\ last_sample # None
   /\ last_sample[1].code = 0
   /\ ~HasAll(last_sample[1].cookies))
    => /\ poll_status # Success
       /\ error_message # None
       /\ action = None

\* C4: two consecutive poll calls of one login page are never issued less
\* than the 2-second interval apart.
C4_PollPacing ==
  [][(PollIssueStep /\ prev_issue # None)
       => now - prev_issue[1] >= PollInterval]_vars

\* a second poll call of the page is in flight, issued later than the
\* interval after the first
C4_Witness ==
  /\ pc = "poll_qrcode"
  /\ Len(code_hist) = 1
  /\ prev_issue = Some(PollInterval + 2)

\* C5: once play_video has exported the cookie jar, the file does not exist
\* after play_video returns, however it returns.
C5_CookieJarDeleted ==
  (last_play # None /\ last_play[1].exported) => ~cookie_file

\* C6: at most one network call of the login page is in flight, and while it
\* is the turn loop is suspended at that call, so no start or tick runs.
C6_OneInFlight ==
  /\ Len(inflight) <= 1
  /\ Len(inflight) = 1
       => \/ Head(inflight).call = "get_qrcode_data" /\ pc = "load_qrcode"
          \/ Head(inflight).call = "poll_qrcode" /\ pc = "poll_qrcode"
  /\ pc \in {"load_qrcode", "poll_qrcode"} => Len(inflight) = 1

\* a poll call is still pending after the poll interval has elapsed again
C6_Witness ==
  /\ pc = "poll_qrcode"
  /\ Len(inflight) = 1
  /\ now - last_poll[1] > PollInterval

\* C7: a poll call carries the most recently obtained challenge key, which
\* is the key the page holds and never the key of a replaced page, and a
\* sample is applied to the page holding the key it was made for.
C7_LatestKeyPolled ==
  /\ \A i \in DOMAIN inflight :
       inflight[i].call = "poll_qrcode"
         => /\ inflight[i].key = next_key - 1
            /\ inflight[i].key \notin discarded
            /\ qrcode_data = Some(inflight[i].key)
  /\ (current_page = "Login" /\ last_sample # None)
       => /\ qrcode_data = Some(last_sample[1].key)
          /\ last_sample[1].key \notin discarded

\* after a refresh the new challenge has been polled and sampled
C7_Witness ==
  /\ discarded = {1}
  /\ qrcode_data = Some(2)
  /\ last_sample # None
  /\ last_sample[1].key = 2

\* C8 as stated: a sample with a code outside the four named ones leaves the
\* status as it was before the sample.
C8_UnknownKeepsSubState ==
  [][(SampleStep /\ last_sample'[1].code \notin NamedCodes)
       => poll_status' = poll_status]_vars

\* C8 amended: a sample with a code c outside the four named ones sets the
\* status to Unknown(c), whatever it was; the challenge, the pacing and the
\* error message are unchanged, no action is produced, and the next tick
\* after the interval polls again.
C8_UnknownReplacesStatus ==
  [][/\ (SampleStep /\ last_sample'[1].code \notin NamedCodes)
          => /\ poll_status' = [tag |-> "Unknown",
                                code |-> last_sample'[1].code]
             /\ qrcode_data' = qrcode_data
             /\ last_poll' = last_poll
             /\ error_message' = error_message
             /\ action' = None
     /\ (/\ pc = "tick" /\ current_page = "Login"
         /\ poll_status.tag = "Unknown" /\ qrcode_data # None
         /\ now - last_poll[1] > PollInterval)
          => PollIssueStep \/ pc' = pc]_vars

\* a Scanned session sampled an unknown code and shows Unknown
C8_Witness ==
  /\ Len(status_hist) >= 2
  /\ status_hist[Len(status_hist) - 1] = Scanned
  /\ poll_status = Unknown(86100)
  /\ code_hist[Len(code_hist)] = 86100

\* C9: every sampled code has a status: 86101 Waiting, 86090 Scanned,
\* 0 Success, 86038 Expired, and any other code c Unknown(c) with c kept.
C9_CodeMapping ==
  /\ Len(status_hist) = Len(code_hist)
  /\ \A i \in DOMAIN code_hist :
       LET c == code_hist[i]
           st == status_hist[i]
       IN /\ c = 86101 => st = [tag |-> "Waiting"]
          /\ c = 86090 => st = [tag |-> "Scanned"]
          /\ c = 0 => st = [tag |-> "Success"]
          /\ c = 86038 => st = [tag |-> "Expired"]
          /\ c \notin NamedCodes => st = [tag |-> "Unknown", code |-> c]

\* a page sampled an unknown code, Scanned, Waiting and then Expired
C9_Witness ==
  code_hist = <<86100, 86090, 86101, 86038>>

\* c holds, for each mandatory field, a value of that cookie in the cookie
\* list of the login, which names all three
BuiltFromLogin(c) ==
  /\ login_cookies # None
  /\ HasAll(login_cookies[1])
  /\ c.sessdata \in ValuesOf(login_cookies[1], "SESSDATA")
  /\ c.bili_jct \in ValuesOf(login_cookies[1], "bili_jct")
  /\ c.dede_user_id \in ValuesOf(login_cookies[1], "DedeUserID")

\* C10: the credentials passed to save_credentials, carried by a
\* LoginSuccess action, put in the session slot by a login, handed to the
\* API client by a login or found in the file after a login were all built
\* from a cookie list naming SESSDATA, bili_jct and DedeUserID.
C10_NoPartialCredential ==
  /\ \A i \in DOMAIN save_args : BuiltFromLogin(save_args[i])
  /\ action # None => BuiltFromLogin(action[1])
  /\ save_args # << >>
       => /\ credentials # None /\ BuiltFromLogin(credentials[1])
          /\ client_credentials # None
          /\ BuiltFromLogin(client_credentials[1])
          /\ LoadCredentials(file).ok
               => BuiltFromLogin(LoadCredentials(file).value)

\* a login went through: saved, installed and handed to the client
C10_Witness ==
  /\ current_page = "Home"
  /\ Len(save_args) = 1
  /\ credentials = Some(save_args[1])
  /\ client_credentials = credentials
  /\ file = Some(ToJson(save_args[1]))

\* ------------------------------------------- from_cookies on its own
\* the cookie names a response may carry: the four recognized names and a
\* name differing from one of them by case only
CookieNames ==
  {"SESSDATA", "bili_jct", "DedeUserID", "DedeUserID__ckMd5", "sessdata"}
CookieValues == {"a", "b"}

CookieInit ==
  /\ AppNew /\ file = None
  /\ StoreIdle /\ EncodeIdle /\ WbiIdle /\ UrlIdle /\ PageIdle
  /\ ck_cookies = << >>
  /\ ck_token \in {None, Some("rt")}
  /\ ck_result = FromCookies(ck_cookies, ck_token)

\* one more cookie in the list handed to from_cookies
CookieReceived(name, value) ==
  /\ Len(ck_cookies) < MaxCookies
  /\ ck_cookies' = Append(ck_cookies, <<name, value>>)
  /\ ck_result' = FromCookies(ck_cookies', ck_token)
  /\ UNCHANGED <<program_vars, ck_token, store_vars, encode_vars, wbi_vars,
                 alone_vars>>

CookieNext ==
  \E name \in CookieNames, value \in CookieValues : CookieReceived(name, value)

CookieSpec == CookieInit /\ [][CookieNext]_vars

Occurs(cookies, name) == \E i \in DOMAIN cookies : cookies[i][1] = name

\* the value of the last cookie of that name
LastValueOf(cookies, name) ==
  LET last == CHOOSE i \in DOMAIN cookies :
                /\ cookies[i][1] = name
                /\ \A j \in DOMAIN cookies : cookies[j][1] = name => j <= i
  IN cookies[last][2]

RecognizedNames ==
  {"SESSDATA", "bili_jct", "DedeUserID", "DedeUserID__ckMd5"}

\* C11: from_cookies returns absent exactly when SESSDATA, bili_jct or
\* DedeUserID does not occur; otherwise each field holds the value of the
\* last cookie of its exact name, DedeUserID__ckMd5 is absent when its name
\* does not occur, the refresh token is passed through, and cookies of any
\* other name do not change the result.
C11_FromCookies ==
  /\ ck_result = None <=> ~HasAll(ck_cookies)
  /\ ck_result # None =>
       /\ ck_result[1].sessdata = LastValueOf(ck_cookies, "SESSDATA")
       /\ ck_result[1].bili_jct = LastValueOf(ck_cookies, "bili_jct")
       /\ ck_result[1].dede_user_id = LastValueOf(ck_cookies, "DedeUserID")
       /\ IF Occurs(ck_cookies, "DedeUserID__ckMd5")
          THEN ck_result[1].dede_user_id_ckmd5 =
                 <<LastValueOf(ck_cookies, "DedeUserID__ckMd5")>>
          ELSE ck_result[1].dede_user_id_ckmd5 = << >>
       /\ ck_result[1].refresh_token = ck_token
  /\ ck_result =
       FromCookies(SelectSeq(ck_cookies, LAMBDA c : c[1] \in RecognizedNames),
                   ck_token)

\* all three names occur and SESSDATA occurs twice with different values
C11_Witness ==
  /\ ck_cookies = << <<"SESSDATA", "a">>, <<"bili_jct", "b">>,
                     <<"DedeUserID", "a">>, <<"SESSDATA", "b">> >>
  /\ ck_result # None
  /\ ck_result[1].sessdata = "b"

\* ------------------------------------------- failures of the session
\* the challenge request of this page failed: the page holds the error and
\* no challenge
ChallengeFailed ==
  /\ current_page = "Login"
  /\ qrcode_data = None
  /\ error_message = Some("load_qrcode")

\* the step issues a network call
IssueStep ==
  \/ Len(inflight') > Len(inflight)
  \/ Len(inflight') = Len(inflight) /\ inflight' # inflight

\* C12: a challenge request that fails leaves the page holding the error and
\* no challenge, with nothing in flight; from then on no tick issues a call
\* or changes the page, and the only call issued is the challenge request
\* of a login started again from the keyboard.
C12_ChallengeFailureNotRetried ==
  [][/\ (pc = "load_qrcode" /\ qrcode_data' = None /\ error_message' # None)
          => /\ ChallengeFailed'
             /\ inflight' = << >>
             /\ pc' \in {"input", "tick"}
     /\ (ChallengeFailed /\ pc = "tick")
          => /\ inflight' = inflight
             /\ login_vars' = login_vars
     /\ (ChallengeFailed /\ IssueStep)
          => /\ pc = "input"
             /\ inflight' = <<[call |-> "get_qrcode_data"]>>]_vars

\* the loop ended after the challenge request failed and more than a poll
\* interval went by: nothing was issued
C12_Witness ==
  /\ pc = "done"
  /\ ChallengeFailed
  /\ now > PollInterval
  /\ inflight = << >>
  /\ last_poll = None

\* a poll call of the challenge the page holds failed
PollFailed ==
  /\ current_page = "Login"
  /\ qrcode_data # None
  /\ error_message = Some("poll_qrcode")

\* C13: after a poll call failed with a transport error, the page holds the
\* diagnostic and no later tick issues a poll call for that session.
C13_PollErrorEndsPolling ==
  [][(PollFailed /\ pc = "tick") => ~PollIssueStep]_vars

\* ------------------------- save_credentials and load_credentials alone
\* the Credentials values handed to save_credentials
CredentialValues ==
  [sessdata : {"s0", "s1"}, bili_jct : {"j0", "j1"},
   dede_user_id : {"u0", "u1"},
   dede_user_id_ckmd5 : {None, Some("m0")},
   refresh_token : {None, Some("rt0")}]

\* what another writer may leave at the path: no file, a file that is not
\* JSON (a truncated write), or an object holding any subset of the members
ForeignFiles ==
  {None, Some([json |-> FALSE, object |-> << >>])}
  \cup {Some([json |-> TRUE, object |-> [k \in S |-> Some("x")]]) :
          S \in SUBSET (Mandatory \cup Optional)}

StoreInit ==
  /\ AppNew /\ file = None
  /\ CookieIdle /\ EncodeIdle /\ WbiIdle /\ UrlIdle /\ PageIdle
  /\ st_value = None
  /\ st_file = None
  /\ st_loaded = None

\* save_credentials(c)
SaveCredentials(c) ==
  /\ st_file' = Some(ToJson(c))
  /\ st_value' = Some(c)
  /\ st_loaded' = None
  /\ UNCHANGED <<program_vars, cookie_vars, encode_vars, wbi_vars, alone_vars>>

\* the file is removed or rewritten by hand
ForeignWrite(f) ==
  /\ st_file' = f
  /\ st_value' = None
  /\ st_loaded' = None
  /\ UNCHANGED <<program_vars, cookie_vars, encode_vars, wbi_vars, alone_vars>>

\* load_credentials()
CallLoadCredentials ==
  /\ st_loaded = None
  /\ st_loaded' = Some(LoadCredentials(st_file))
  /\ UNCHANGED <<program_vars, cookie_vars, st_value, st_file, encode_vars,
                 wbi_vars, alone_vars>>

StoreNext ==
  \/ \E c \in CredentialValues : SaveCredentials(c)
  \/ \E f \in ForeignFiles : ForeignWrite(f)
  \/ CallLoadCredentials

StoreSpec == StoreInit /\ [][StoreNext]_vars

\* C14: load_credentials after save_credentials(c), with no write between
\* them, returns a value equal to c in all five fields, an absent optional
\* field staying absent.
C14_SaveLoadRoundTrip ==
  (st_value # None /\ st_loaded # None)
    => /\ st_loaded[1].ok
       /\ \A k \in Mandatory \cup Optional :
            st_loaded[1].value[k] = st_value[1][k]

\* a value with one optional field absent and the other present went
\* through save and load
C14_Witness ==
  /\ st_value # None
  /\ st_value[1].dede_user_id_ckmd5 = None
  /\ st_value[1].refresh_token = Some("rt0")
  /\ st_loaded # None
  /\ st_loaded[1].ok

\* the document holds every mandatory member with a value
WellFormed(doc) ==
  /\ doc.json
  /\ \A k \in Mandatory : k \in DOMAIN doc.object /\ doc.object[k] # None

\* C15: load_credentials fails with NotFound exactly when no file exists and
\* with Corrupt exactly when a file exists that is not a well-formed
\* Credentials document; the two errors differ.
C15_LoadFailuresDistinct ==
  st_loaded # None =>
    /\ st_file = None <=> st_loaded[1] = Err("NotFound")
    /\ (st_file # None /\ ~WellFormed(st_file[1]))
         <=> st_loaded[1] = Err("Corrupt")
    /\ (st_file # None /\ WellFormed(st_file[1])) <=> st_loaded[1].ok

\* a file lacking the mandatory member dede_user_id was loaded
C15_Witness ==
  /\ st_file # None
  /\ st_file[1].json
  /\ DOMAIN st_file[1].object = {"sessdata", "bili_jct", "refresh_token"}
  /\ st_loaded = Some(Err("Corrupt"))

\* ------------------------------------------------- api/wbi.rs: url_encode
\* characters are Unicode code points; a string is a sequence of them
IsAsciiAlphanumeric(c) ==
  (48 <= c /\ c <= 57) \/ (65 <= c /\ c <= 90) \/ (97 <= c /\ c <= 122)

\* "-_.~"
Unreserved == {45, 95, 46, 126}

\* "!'()*"
Deleted == {33, 39, 40, 41, 42}

\* c.encode_utf8(&mut [0; 4]).bytes()
EncodeUtf8(c) ==
  IF c < 128 THEN <<c>>
  ELSE IF c < 2048 THEN <<192 + (c \div 64), 128 + (c % 64)>>
  ELSE IF c < 65536
    THEN <<224 + (c \div 4096), 128 + ((c \div 64) % 64), 128 + (c % 64)>>
  ELSE <<240 + (c \div 262144), 128 + ((c \div 4096) % 64),
         128 + ((c \div 64) % 64), 128 + (c % 64)>>

\* a plausible slip: {:02x} in place of {:02X}
HexDigitLower(n) == IF n < 10 THEN 48 + n ELSE 87 + n

\* one digit of {:02X}
HexDigit(n) == IF n < 10 THEN 48 + n ELSE 55 + n

\* format!("%{:02X}", b)
PercentByte(b) == <<37, HexDigit(b \div 16), HexDigit(b % 16)>>

RECURSIVE FoldBytes(_, _)
\* .fold(String::new(), |acc, b| acc + &format!("%{:02X}", b))
FoldBytes(bytes, acc) ==
  IF bytes = << >> THEN acc
  ELSE FoldBytes(Tail(bytes), acc \o PercentByte(Head(bytes)))

\* the closure of filter_map: None drops the character
EncodeChar(c) ==
  IF IsAsciiAlphanumeric(c) \/ c \in Unreserved THEN Some(<<c>>)
  ELSE IF c \in Deleted THEN None
  ELSE Some(FoldBytes(EncodeUtf8(c), << >>))

RECURSIVE UrlEncode(_)
\* url_encode: s.chars().filter_map(..).collect::<String>()
UrlEncode(str) ==
  IF str = << >> THEN << >>
  ELSE LET e == EncodeChar(Head(str))
       IN (IF e = None THEN << >> ELSE e[1]) \o UrlEncode(Tail(str))

\* the characters fed to url_encode: a z A Z 0 9, the neighbours of those
\* ranges / : @ [ ` {, the four unreserved, the five deleted, & = space %,
\* and e-acute, a CJK character and an emoji (2, 3 and 4 UTF-8 bytes)
TextChars ==
  {97, 122, 65, 90, 48, 57, 47, 58, 64, 91, 96, 123}
  \cup Unreserved \cup Deleted \cup {38, 61, 32, 37, 233, 20013, 128512}

EncodeInit ==
  /\ AppNew /\ file = None
  /\ CookieIdle /\ StoreIdle /\ WbiIdle /\ UrlIdle /\ PageIdle
  /\ enc_text = << >>
  /\ enc_out = UrlEncode(enc_text)

\* url_encode of a text one character longer
EncodeLonger(c) ==
  /\ Len(enc_text) < MaxText
  /\ enc_text' = Append(enc_text, c)
  /\ enc_out' = UrlEncode(enc_text')
  /\ UNCHANGED <<program_vars, cookie_vars, store_vars, wbi_vars, alone_vars>>

EncodeNext == \E c \in TextChars : EncodeLonger(c)

EncodeSpec == EncodeInit /\ [][EncodeNext]_vars

UpperHex == <<48, 49, 50, 51, 52, 53, 54, 55, 56, 57, 65, 66, 67, 68, 69, 70>>

\* the UTF-8 encoding of the characters above that are not ASCII
Utf8Of(c) ==
  CASE c = 233 -> <<195, 169>>
    [] c = 20013 -> <<228, 184, 173>>
    [] c = 128512 -> <<240, 159, 152, 128>>
    [] OTHER -> <<c>>

\* what the encoding makes of one character
PieceOf(c) ==
  IF c \in {97, 122, 65, 90, 48, 57, 45, 95, 46, 126} THEN <<c>>
  ELSE IF c \in {33, 39, 40, 41, 42} THEN << >>
  ELSE LET b == Utf8Of(c)
           triplet(i) == <<37, UpperHex[(b[i] \div 16) + 1],
                           UpperHex[(b[i] % 16) + 1]>>
       IN IF Len(b) = 1 THEN triplet(1)
          ELSE IF Len(b) = 2 THEN triplet(1) \o triplet(2)
          ELSE IF Len(b) = 3 THEN triplet(1) \o triplet(2) \o triplet(3)
          ELSE triplet(1) \o triplet(2) \o triplet(3) \o triplet(4)

RECURSIVE Pieces(_)
Pieces(str) ==
  IF str = << >> THEN << >> ELSE PieceOf(Head(str)) \o Pieces(Tail(str))

MIXIN_KEY_ENC_TAB ==
  <<46, 47, 18, 2, 53, 8, 23, 32, 15, 50, 10, 31, 58, 3, 45, 35, 27, 43, 5,
    49, 33, 9, 42, 19, 29, 28, 14, 39, 12, 38, 41, 13, 37, 48, 7, 16, 24, 55,
    40, 61, 26, 17, 0, 1, 60, 51, 30, 4, 22, 25, 54, 21, 56, 59, 6, 63, 57,
    62, 11, 36, 20, 34, 44, 52>>

\* .take(32)
MixinKeyLen == 32

\* a plausible slip: the table entries are used as one-based positions
GetMixinKeyOneBased(img_key, sub_key) ==
  LET orig == img_key \o sub_key
  IN IF \E k \in 1..MixinKeyLen : MIXIN_KEY_ENC_TAB[k] > Len(orig)
     THEN Err("panic")
     ELSE Ok([k \in 1..MixinKeyLen |-> orig[MIXIN_KEY_ENC_TAB[k]]])

\* get_mixin_key: orig_bytes[i] panics when i is not below the length
GetMixinKey(img_key, sub_key) ==
  LET orig == img_key \o sub_key
  IN IF \E k \in 1..MixinKeyLen : MIXIN_KEY_ENC_TAB[k] >= Len(orig)
     THEN Err("panic")
     ELSE Ok([k \in 1..MixinKeyLen |-> orig[MIXIN_KEY_ENC_TAB[k] + 1]])

RECURSIVE ToDecimal(_)
\* timestamp.to_string()
ToDecimal(n) ==
  IF n < 10 THEN <<48 + n>> ELSE ToDecimal(n \div 10) \o <<48 + (n % 10)>>

\* a.0.cmp(b.0) = Less: byte-wise lexicographic order
StrLess(a, b) ==
  \E i \in 1..Len(b) :
    /\ \A j \in 1..(i - 1) : j <= Len(a) /\ a[j] = b[j]
    /\ i > Len(a) \/ a[i] < b[i]

RECURSIVE InsertByName(_, _)
\* p goes behind every pair whose name is not greater: equal names keep
\* the order they had
InsertByName(sorted, p) ==
  IF sorted = << >> THEN <<p>>
  ELSE IF StrLess(p[1], Head(sorted)[1]) THEN <<p>> \o sorted
  ELSE <<Head(sorted)>> \o InsertByName(Tail(sorted), p)

RECURSIVE SortFrom(_, _)
SortFrom(params, sorted) ==
  IF params = << >> THEN sorted
  ELSE SortFrom(Tail(params), InsertByName(sorted, Head(params)))

\* a plausible slip: the parameters are left in the order given
SortByNameNone(params) == params

\* params.sort_by(|a, b| a.0.cmp(b.0)): a stable sort on the name alone
SortByName(params) == SortFrom(params, << >>)

\* format!("{}={}", url_encode(k), url_encode(v))
EncodePair(p) == UrlEncode(p[1]) \o <<61>> \o UrlEncode(p[2])

RECURSIVE JoinAmp(_)
\* .collect::<Vec<_>>().join("&")
JoinAmp(parts) ==
  IF parts = << >> THEN << >>
  ELSE IF Len(parts) = 1 THEN parts[1]
  ELSE parts[1] \o <<38>> \o JoinAmp(Tail(parts))

\* format!("{:x}", md5::compute(input)): the digest is not interpreted
Md5Hex(input) == [md5 |-> input]

\* the name "wts"
Wts == <<119, 116, 115>>

\* a plausible slip: wts is added behind the sorted parameters
EncodeWbiWtsLast(params, img_key, sub_key, timestamp) ==
  LET mixin_key == GetMixinKey(img_key, sub_key)
  IN IF ~mixin_key.ok THEN Err("panic")
     ELSE LET sorted == Append(SortByName(params), <<Wts, ToDecimal(timestamp)>>)
              query == JoinAmp([i \in 1..Len(sorted) |-> EncodePair(sorted[i])])
          IN Ok([query |-> query,
                 w_rid |-> Md5Hex(query \o mixin_key.value)])

\* encode_wbi_with_timestamp; the string returned is query, then "&w_rid=",
\* then w_rid
EncodeWbiWithTimestamp(params, img_key, sub_key, timestamp) ==
  LET mixin_key == GetMixinKey(img_key, sub_key)
  IN IF ~mixin_key.ok THEN Err("panic")
     ELSE LET sorted == SortByName(Append(params, <<Wts, ToDecimal(timestamp)>>))
              query == JoinAmp([i \in 1..Len(sorted) |-> EncodePair(sorted[i])])
          IN Ok([query |-> query,
                 w_rid |-> Md5Hex(query \o mixin_key.value)])

\* img_key 7cd084941338484aae1ad9425b84077c
TestImgKey ==
  <<55, 99, 100, 48, 56, 52, 57, 52, 49, 51, 51, 56, 52, 56, 52, 97, 97,
      101, 49, 97, 100, 57, 52, 50, 53, 98, 56, 52, 48, 55, 55, 99>>
\* sub_key 4932caff0ff746eab6f01bf08b70ac45
TestSubKey ==
  <<52, 57, 51, 50, 99, 97, 102, 102, 48, 102, 102, 55, 52, 54, 101, 97,
      98, 54, 102, 48, 49, 98, 102, 48, 56, 98, 55, 48, 97, 99, 52, 53>>
\* 64 different characters: '0'..'O' and 'P'..'o'
DistinctImgKey == [i \in 1..32 |-> 47 + i]
DistinctSubKey == [i \in 1..32 |-> 79 + i]

\* the key pairs: the two above, pairs too short for the table (empty, 3
\* characters, 58 characters) and the shortest pair that is long enough (59)
KeyPairs ==
  { <<TestImgKey, TestSubKey>>,
    <<DistinctImgKey, DistinctSubKey>>,
    << << >>, << >> >>,
    << <<97, 98, 99>>, << >> >>,
    <<DistinctImgKey, SubSeq(DistinctSubKey, 1, 26)>>,
    <<DistinctImgKey, SubSeq(DistinctSubKey, 1, 27)>> }

Timestamps == {1702204169, 0}

\* foo=114, bar=514, zab=1919810
Foo == << <<102, 111, 111>>, <<49, 49, 52>> >>
Bar == << <<98, 97, 114>>, <<53, 49, 52>> >>
Zab == << <<122, 97, 98>>, <<49, 57, 49, 57, 56, 49, 48>> >>
\* bar=1&2: the name of Bar with another value, one that needs escaping
BarAmp == << <<98, 97, 114>>, <<49, 38, 50>> >>
\* Zed=(e-acute): upper case sorts before lower case
Zed == << <<90, 101, 100>>, <<233>> >>

ParamPool == {Foo, Bar, Zab, BarAmp, Zed}

WbiInit ==
  /\ AppNew /\ file = None
  /\ CookieIdle /\ StoreIdle /\ EncodeIdle /\ UrlIdle /\ PageIdle
  /\ wbi_params = << >>
  /\ wbi_keys \in KeyPairs
  /\ wbi_ts \in Timestamps
  /\ wbi_mixin = Some(GetMixinKey(wbi_keys[1], wbi_keys[2]))
  /\ wbi_signed =
       Some(EncodeWbiWithTimestamp(wbi_params, wbi_keys[1], wbi_keys[2], wbi_ts))

\* encode_wbi_with_timestamp of a parameter list one pair longer
PushParam(p) ==
  /\ Len(wbi_params) < MaxParams
  /\ wbi_params' = Append(wbi_params, p)
  /\ wbi_signed' =
       Some(EncodeWbiWithTimestamp(wbi_params', wbi_keys[1], wbi_keys[2], wbi_ts))
  /\ UNCHANGED <<program_vars, cookie_vars, store_vars, encode_vars, wbi_keys,
                 wbi_ts, wbi_mixin, alone_vars>>

WbiNext == \E p \in ParamPool : PushParam(p)

WbiSpec == WbiInit /\ [][WbiNext]_vars

\* ----------------------------------------------- properties of signing
\* the list with its pairs rearranged by f
Rearranged(params, f) == [i \in 1..Len(params) |-> params[f[i]]]

Signed(params) ==
  EncodeWbiWithTimestamp(params, wbi_keys[1], wbi_keys[2], wbi_ts)

NamesDecideValues(params) ==
  \A i, j \in 1..Len(params) :
    params[i][1] = params[j][1] => params[i][2] = params[j][2]

TestMixinKey ==
  <<101, 97, 49, 100, 98, 49, 50, 52, 97, 102, 51, 99, 55, 48, 54, 50,
      52, 55, 52, 54, 57, 51, 102, 97, 55, 48, 52, 102, 52, 102, 102, 56>>

\* C17: when get_mixin_key returns, the result has 32 characters, character
\* k being the one at index TABLE[k] of img_key followed by sub_key; it is
\* a function of the two keys; for the keys 7cd0...077c and 4932...ac45 it
\* is ea1db124af3c7062474693fa704f4ff8.
C17_MixinKey ==
  /\ wbi_mixin[1].ok =>
       /\ Len(wbi_mixin[1].value) = 32
       /\ \A k \in 0..31 :
            wbi_mixin[1].value[k + 1] =
              (wbi_keys[1] \o wbi_keys[2])[MIXIN_KEY_ENC_TAB[k + 1] + 1]
  /\ wbi_mixin[1] = GetMixinKey(wbi_keys[1], wbi_keys[2])
  /\ wbi_keys = <<TestImgKey, TestSubKey>> => wbi_mixin[1] = Ok(TestMixinKey)
  /\ wbi_keys = <<DistinctImgKey, DistinctSubKey>> =>
       /\ wbi_mixin[1].ok
       /\ wbi_mixin[1].value[1] = 94
       /\ wbi_mixin[1].value[4] = 50
       /\ wbi_mixin[1].value[32] = 61

\* the keys of the test were used and parameters were signed with them
C17_Witness ==
  /\ wbi_keys = <<TestImgKey, TestSubKey>>
  /\ wbi_mixin = Some(Ok(TestMixinKey))
  /\ Len(wbi_params) = MaxParams

\* C18: get_mixin_key and encode_wbi_with_timestamp return a value for any
\* two ASCII keys, whatever their lengths.
C18_NeverAborts ==
  /\ wbi_mixin[1].ok
  /\ wbi_signed[1].ok

\* wts=1702204169 and wts=0
WtsOnly(ts) ==
  IF ts = 0 THEN <<119, 116, 115, 61, 48>>
  ELSE <<119, 116, 115, 61, 49, 55, 48, 50, 50, 48, 52, 49, 54, 57>>

\* bar=514&foo=114&wts=1702204169&zab=1919810
TestQuery ==
  <<98, 97, 114, 61, 53, 49, 52, 38, 102, 111, 111, 61, 49, 49, 52, 38,
      119, 116, 115, 61, 49, 55, 48, 50, 50, 48, 52, 49, 54, 57, 38, 122,
      97, 98, 61, 49, 57, 49, 57, 56, 49, 48>>

\* the pairs signed: the parameters and wts
AllPairs ==
  Append(wbi_params,
         <<Wts, SubSeq(WtsOnly(wbi_ts), 5, Len(WtsOnly(wbi_ts)))>>)

\* C19: when the signing returns, the string is query, "&w_rid=" and the
\* hash of query followed by the mixin key; query joins with "&" the encoded
\* name=value pairs of the parameters and of wts = the decimal timestamp, in
\* byte-wise ascending order of the names; with no parameters query is
\* wts=<timestamp>; with foo=114, bar=514, zab=1919810 and timestamp
\* 1702204169 query is bar=514&foo=114&wts=1702204169&zab=1919810.
C19_SignedForm ==
  wbi_signed[1].ok =>
    LET out == wbi_signed[1].value
    IN /\ out.w_rid = Md5Hex(out.query \o wbi_mixin[1].value)
       /\ \E f \in Permutations(1..Len(AllPairs)) :
            LET pairs == Rearranged(AllPairs, f)
            IN /\ \A i \in 1..(Len(pairs) - 1) :
                    ~StrLess(pairs[i + 1][1], pairs[i][1])
               /\ out.query =
                    JoinAmp([i \in 1..Len(pairs) |->
                               UrlEncode(pairs[i][1]) \o <<61>>
                                 \o UrlEncode(pairs[i][2])])
       /\ wbi_params = << >> => out.query = WtsOnly(wbi_ts)
       /\ (wbi_params = <<Foo, Bar, Zab>> /\ wbi_ts = 1702204169)
            => out.query = TestQuery

\* the parameters, timestamp and keys of the test were signed
C19_Witness ==
  /\ wbi_params = <<Foo, Bar, Zab>>
  /\ wbi_ts = 1702204169
  /\ wbi_keys = <<TestImgKey, TestSubKey>>
  /\ wbi_signed[1].ok
  /\ wbi_signed[1].value.query = TestQuery
  /\ wbi_signed[1].value.w_rid = Md5Hex(TestQuery \o TestMixinKey)

\* --------------------------------- api/wbi.rs: extract_key_from_url
\* the position of the last occurrence of c in str, 0 when there is none
LastIndexOf(str, c) ==
  IF \E i \in DOMAIN str : str[i] = c
  THEN CHOOSE i \in DOMAIN str :
         str[i] = c /\ \A j \in DOMAIN str : str[j] = c => j <= i
  ELSE 0

\* str.rsplit_once(c)
RsplitOnce(str, c) ==
  LET i == LastIndexOf(str, c)
  IN IF i = 0 THEN None
     ELSE Some(<<SubSeq(str, 1, i - 1), SubSeq(str, i + 1, Len(str))>>)

\* url.rsplit_once('/').and_then(|(_, s)| s.rsplit_once('.'))
\*    .map(|(s, _)| s.to_string())
ExtractKeyFromUrl(url) ==
  LET by_slash == RsplitOnce(url, 47)
  IN IF by_slash = None THEN None
     ELSE LET by_dot == RsplitOnce(by_slash[1][2], 46)
          IN IF by_dot = None THEN None ELSE Some(by_dot[1][1])

\* https://i0.hdslb.com/bfs/wbi
UrlWbiDir ==
  <<104, 116, 116, 112, 115, 58, 47, 47, 105, 48, 46, 104, 100, 115, 108,
    98, 46, 99, 111, 109, 47, 98, 102, 115, 47, 119, 98, 105>>
\* https:/
UrlScheme == <<104, 116, 116, 112, 115, 58, 47>>
\* host, example, png
UrlHost == <<104, 111, 115, 116>>
UrlExample == <<101, 120, 97, 109, 112, 108, 101>>
UrlPng == <<112, 110, 103>>

\* a URL is put together from pieces: "/", ".", words and the key of the test
UrlPieces == {<<47>>, <<46>>, UrlHost, UrlExample, UrlPng, TestImgKey}
UrlStarts == {<< >>, <<UrlWbiDir>>, <<UrlScheme>>}

RECURSIVE Flatten(_)
Flatten(pieces) ==
  IF pieces = << >> THEN << >> ELSE Head(pieces) \o Flatten(Tail(pieces))

UrlInit ==
  /\ AppNew /\ file = None
  /\ CookieIdle /\ StoreIdle /\ EncodeIdle /\ WbiIdle /\ PageIdle
  /\ url_text \in UrlStarts
  /\ url_key = ExtractKeyFromUrl(Flatten(url_text))

\* extract_key_from_url of a URL one piece longer
UrlLonger(piece) ==
  /\ Len(url_text) < MaxPieces
  /\ url_text' = Append(url_text, piece)
  /\ url_key' = ExtractKeyFromUrl(Flatten(url_text'))
  /\ UNCHANGED <<program_vars, cookie_vars, store_vars, encode_vars, wbi_vars,
                 page_vars>>

UrlNext == \E piece \in UrlPieces : UrlLonger(piece)

UrlSpec == UrlInit /\ [][UrlNext]_vars

\* https://host.example
HostOnlyUrl == UrlScheme \o <<47>> \o UrlHost \o <<46>> \o UrlExample

\* https://i0.hdslb.com/bfs/wbi/7cd084941338484aae1ad9425b84077c.png
TestUrl == UrlWbiDir \o <<47>> \o TestImgKey \o <<46>> \o UrlPng

\* C21: extract_key_from_url returns absent for the URL
\* https://host.example, which has scheme and host only, and for a URL
\* whose last segment has no "."; otherwise it returns the text between the
\* last "/" and the last "." behind it; for the URL of the test it returns
\* 7cd084941338484aae1ad9425b84077c.
C21_ExtractKey ==
  LET url == Flatten(url_text)
      slash == LastIndexOf(url, 47)
      segment == SubSeq(url, slash + 1, Len(url))
  IN /\ url = HostOnlyUrl => url_key = None
     /\ (slash > 0 /\ LastIndexOf(segment, 46) = 0) => url_key = None
     /\ (slash > 0 /\ LastIndexOf(segment, 46) > 0 /\ url # HostOnlyUrl)
          => url_key = Some(SubSeq(segment, 1, LastIndexOf(segment, 46) - 1))
     /\ url = TestUrl => url_key = Some(TestImgKey)

\* ------------------------------------------- pacing, expiry, refresh
\* C22: a poll call of a login page is never issued less than the 2-second
\* interval after the previous poll call of that page returned.
C22_PacedFromCompletion ==
  [][(PollIssueStep /\ poll_done # None)
       => now - poll_done[1] >= PollInterval]_vars

\* the step issues a challenge request
ChallengeIssueStep ==
  /\ Len(inflight') > Len(inflight)
  /\ inflight'[Len(inflight')].call = "get_qrcode_data"

\* C23: the status becomes Expired only by a poll sample with code 86038;
\* a step of the clock changes neither the status nor the challenge; a
\* challenge request is issued only by the application start or by the
\* user's refresh key, never by a tick.
C23_ExpiryOnlyFromServer ==
  [][/\ (poll_status' = Expired /\ poll_status # Expired)
          => SampleStep /\ last_sample'[1].code = 86038
     /\ now' # now
          => poll_status' = poll_status /\ qrcode_data' = qrcode_data
     /\ ChallengeIssueStep => pc \in {"init", "input"}
     /\ pc = "tick" => qrcode_data' = qrcode_data]_vars

\* the page is Expired by a sample with code 86038, ticks run long after
\* the last poll, and the page still holds its first and only challenge
C23_Witness ==
  /\ current_page = "Login"
  /\ pc = "tick"
  /\ poll_status = Expired
  /\ last_sample # None
  /\ last_sample[1].code = 86038
  /\ now - last_poll[1] > PollInterval + 1
  /\ qrcode_data = Some(1)
  /\ next_key = 2

\* ------------------------------------------------ the session slot
\* C24: at start, when credentials.json is missing or is not a well-formed
\* Credentials document, the application is on the Login page with an empty
\* session slot and a client without cookies; otherwise it is on the Home
\* page with the credentials of the file in the session slot and the client.
C24_StartPage ==
  pc = "init" =>
    IF file = None \/ ~WellFormed(file[1])
    THEN /\ current_page = "Login"
         /\ credentials = None
         /\ client_credentials = None
    ELSE /\ current_page = "Home"
         /\ credentials # None
         /\ client_credentials = credentials
         /\ \A k \in Mandatory : credentials[1][k] = file[1].object[k][1]
         /\ \A k \in Optional : credentials[1][k] = file[1].object[k]

\* the application started from a file that is JSON but lacks dede_user_id
C24_Witness ==
  /\ pc = "init"
  /\ file # None
  /\ file[1].json
  /\ ~WellFormed(file[1])
  /\ current_page = "Login"
  /\ credentials = None

\* C25: the session slot changes only in the handling of LoginSuccess, where
\* it becomes the credentials that action carries, built from the cookies
\* and refresh token of the login; every other step leaves it as it is.
C25_SlotReplacedOnlyByLogin ==
  [][credentials' # credentials
       => /\ pc = "handle_action"
          /\ action # None
          /\ credentials' = action
          /\ login_cookies # None
          /\ BuiltFromLogin(credentials'[1])]_vars

\* the loop ended on the Home page after a login and a play_video call: the
\* slot still holds the credentials of the login
C25_Witness ==
  /\ pc = "done"
  /\ current_page = "Home"
  /\ save_args # << >>
  /\ credentials = Some(save_args[1])
  /\ last_play # None

\* ------------------------------------------------- the login action
\* C26: a LoginSuccess action is produced only by a poll sample with code 0
\* whose cookies name SESSDATA, bili_jct and DedeUserID, and its credentials
\* hold the refresh_token of that response; the page that produced it makes
\* no further call and is replaced by the Home page when the action is
\* handled, so it produces no second one.
C26_LoginActionOnce ==
  [][/\ (action' # None /\ action = None)
          => /\ SampleStep
             /\ last_sample'[1].code = 0
             /\ HasAll(last_sample'[1].cookies)
             /\ action'[1].refresh_token =
                  Some(last_sample'[1].refresh_token)
             /\ pc' = "handle_action"
     /\ action # None
          => /\ pc = "handle_action"
             /\ inflight' = inflight
             /\ action' \in {action, None}
     /\ (action # None /\ action' = None)
          => current_page' = "Home" /\ code_hist' = << >>]_vars

\* a login with the second refresh token is about to be handled, after an
\* earlier sample of the page that was not a login
C26_Witness ==
  /\ pc = "handle_action"
  /\ action # None
  /\ action[1].refresh_token = Some("rt2")
  /\ Len(code_hist) = 2
  /\ last_sample[1].action = "LoginSuccess"

\* C27: the handling of LoginSuccess puts the credentials of the action in
\* the session slot and in the API client and makes Home the current page in
\* that one step, whether save_credentials succeeded or failed.
C27_LoginCompletesWithoutSave ==
  [][(pc = "handle_action" /\ pc' # pc)
       => /\ credentials' = action
          /\ client_credentials' = action
          /\ current_page' = "Home"
          /\ action' = None
          /\ save_args' = Append(save_args, action[1])
          /\ file' \in {file, Some(ToJson(action[1]))}]_vars

\* a login was handled whose save_credentials failed: no file exists, the
\* page is Home and the slot and the client hold the credentials
C27_Witness ==
  /\ current_page = "Home"
  /\ save_args # << >>
  /\ file = None
  /\ credentials = Some(save_args[1])
  /\ client_credentials = credentials

\* ------------------------------------------------- poll calls that fail
\* LoginPage::draw, the QR code area: the error comes before the QR code
DrawQrArea(error, data) ==
  IF error # None THEN "error" ELSE IF data # None THEN "qrcode" ELSE "loading"

\* C28: once a poll call failed, the error message of the page stays as it
\* is through every tick, whatever the later polls answer, and the page
\* draws it in place of the QR code although it holds a challenge; a message
\* is cleared only outside ticks, by a successful challenge load or with
\* the replacement of the page.
C28_PollErrorSticks ==
  [][/\ (PollFailed /\ pc \in {"tick", "poll_qrcode"})
          => /\ error_message' = error_message
             /\ DrawQrArea(error_message', qrcode_data') = "error"
     /\ (error_message # None /\ error_message' = None)
          => \/ pc = "load_qrcode" /\ qrcode_data' # None
             \/ pc = "input" /\ qrcode_data' = None
             \/ pc = "handle_action" /\ current_page' = "Home"]_vars

\* a poll call failed, a later sample took the status to Scanned, the
\* message is still there and the next poll call is in flight
C28_Witness ==
  /\ PollFailed
  /\ poll_status = Scanned
  /\ last_sample # None
  /\ pc = "poll_qrcode"
  /\ DrawQrArea(error_message, qrcode_data) = "error"

\* the step is the return of a poll call without a sample: a transport
\* error or a response without data
NoSampleStep ==
  /\ pc = "poll_qrcode"
  /\ pc' # pc
  /\ last_sample' = None

\* C29: a poll call that fails or answers without data leaves the status and
\* the challenge unchanged and produces no action; the last-poll time was
\* set to the time of the call when it was issued and stays, so no poll
\* call is issued until more than 2 seconds after that.
C29_NoSampleStillPaces ==
  [][/\ NoSampleStep
          => /\ poll_status' = poll_status
             /\ qrcode_data' = qrcode_data
             /\ action' = None
             /\ pc' # "handle_action"
             /\ last_poll' = last_poll
             /\ last_poll = prev_issue
     /\ PollIssueStep => last_poll' = Some(now)
     /\ (pc = "tick" /\ last_poll # None
           /\ now - last_poll[1] <= PollInterval)
          => ~PollIssueStep /\ inflight' = inflight]_vars

\* a tick runs 2 seconds after a poll call that answered without data: it
\* will not poll
C29_Witness ==
  /\ pc = "tick"
  /\ current_page = "Login"
  /\ poll_done # None
  /\ last_sample = None
  /\ error_message = None
  /\ now - last_poll[1] = PollInterval

\* ------------------------- ui/search.rs, ui/dynamic.rs, ui/home.rs alone
\* a page component driven by keys and by the arrival of its data
PageNames == {"Search", "Dynamic", "Home"}

\* SearchPage::new, DynamicPage::new, HomePage::new
PageNew(page) ==
  /\ pg_page = page
  /\ pg_items = << >>
  /\ pg_selected = 0
  /\ pg_scroll = 0
  /\ pg_input_mode = (page = "Search")
  /\ pg_query = 0
  /\ pg_loading = (page # "Search")

PageInit ==
  /\ AppNew /\ file = None
  /\ CookieIdle /\ StoreIdle /\ EncodeIdle /\ WbiIdle /\ UrlIdle
  /\ \E page \in PageNames : PageNew(page)

\* what a page step leaves alone
beside_page ==
  <<program_vars, cookie_vars, store_vars, encode_vars, wbi_vars, url_vars>>

\* a plausible slip: 'j' does not look at the length of the list
MoveInListNoBound(key, index, len) ==
  IF key = "j" THEN index + 1
  ELSE IF index > 0 THEN index - 1 ELSE index

\* SearchPage and DynamicPage, handle_input 'j' | Down and 'k' | Up
MoveInList(key, index, len) ==
  IF key = "j"
  THEN IF len # 0 /\ index + 1 < len THEN index + 1 ELSE index
  ELSE IF index > 0 THEN index - 1 ELSE index

\* the result lists of a search: n items
ResultLists == {[i \in 1..n |-> "video"] : n \in 0..MaxVideos}

\* the feeds: items that are videos and items that are not
FeedLists == UNION {[1..n -> {"video", "other"}] : n \in 0..MaxVideos}

\* SearchPage::handle_input in input mode: Char(c)
SearchKeyChar ==
  /\ pg_page = "Search" /\ pg_input_mode
  /\ pg_query < MaxQuery
  /\ pg_query' = pg_query + 1
  /\ UNCHANGED <<pg_page, pg_items, pg_selected, pg_scroll, pg_input_mode,
                 pg_loading, beside_page>>

\* SearchPage::handle_input in input mode: Backspace
SearchKeyBackspace ==
  /\ pg_page = "Search" /\ pg_input_mode
  /\ pg_query' = IF pg_query > 0 THEN pg_query - 1 ELSE 0
  /\ UNCHANGED <<pg_page, pg_items, pg_selected, pg_scroll, pg_input_mode,
                 pg_loading, beside_page>>

\* SearchPage::handle_input in input mode: Enter with a query
SearchKeyEnter ==
  /\ pg_page = "Search" /\ pg_input_mode
  /\ pg_query > 0
  /\ pg_loading' = TRUE
  /\ UNCHANGED <<pg_page, pg_items, pg_selected, pg_scroll, pg_input_mode,
                 pg_query, beside_page>>

\* SearchPage::handle_input: Esc in input mode, '/' | 'i' outside it
SearchKeyMode ==
  /\ pg_page = "Search"
  /\ pg_input_mode' = ~pg_input_mode
  /\ UNCHANGED <<pg_page, pg_items, pg_selected, pg_scroll, pg_query,
                 pg_loading, beside_page>>

\* SearchPage::handle_input outside input mode: 'j' | 'k'
SearchKeyMove(key) ==
  /\ pg_page = "Search" /\ ~pg_input_mode
  /\ pg_selected' = MoveInList(key, pg_selected, Len(pg_items))
  /\ UNCHANGED <<pg_page, pg_items, pg_scroll, pg_input_mode, pg_query,
                 pg_loading, beside_page>>

\* SearchPage::set_results
SetResults(results) ==
  /\ pg_page = "Search"
  /\ pg_items' = results
  /\ pg_selected' = 0
  /\ pg_loading' = FALSE
  /\ pg_input_mode' = FALSE
  /\ UNCHANGED <<pg_page, pg_scroll, pg_query, beside_page>>

\* SearchPage::set_error and DynamicPage::set_error
PageSetError ==
  /\ pg_page \in {"Search", "Dynamic"}
  /\ pg_loading' = FALSE
  /\ UNCHANGED <<pg_page, pg_items, pg_selected, pg_scroll, pg_input_mode,
                 pg_query, beside_page>>

\* DynamicPage::handle_input 'j' | 'k'
DynamicKeyMove(key) ==
  /\ pg_page = "Dynamic"
  /\ pg_selected' = MoveInList(key, pg_selected, Len(pg_items))
  /\ UNCHANGED <<pg_page, pg_items, pg_scroll, pg_input_mode, pg_query,
                 pg_loading, beside_page>>

\* DynamicPage::handle_input 'r': the items are cleared, the index is kept
DynamicKeyRefresh ==
  /\ pg_page = "Dynamic"
  /\ pg_loading' = TRUE
  /\ pg_items' = << >>
  /\ UNCHANGED <<pg_page, pg_selected, pg_scroll, pg_input_mode, pg_query,
                 beside_page>>

\* DynamicPage::set_feed: only the video items are kept
SetFeed(items) ==
  /\ pg_page = "Dynamic"
  /\ pg_items' = SelectSeq(items, LAMBDA i : i = "video")
  /\ pg_selected' = 0
  /\ pg_loading' = FALSE
  /\ UNCHANGED <<pg_page, pg_scroll, pg_input_mode, pg_query, beside_page>>

\* HomePage::handle_input 'j' | 'k' | 'l' | 'h'
PageHomeKeyMove(key) ==
  /\ pg_page = "Home"
  /\ pg_selected' = MoveSelection(key, pg_selected, Len(pg_items))
  /\ pg_scroll' =
       IF (key = "j" /\ Len(pg_items) # 0) \/ pg_selected' # pg_selected
       THEN UpdateScroll(pg_selected', pg_scroll, VisibleRows)
       ELSE pg_scroll
  /\ UNCHANGED <<pg_page, pg_items, pg_input_mode, pg_query, pg_loading,
                 beside_page>>

\* HomePage::handle_input 'r' and the SwitchToHome it asks for: a new
\* HomePage, then load_recommendations with the answer r
PageHomeRefresh(r) ==
  /\ pg_page = "Home"
  /\ pg_items' = IF r.ok THEN [i \in DOMAIN r.value |-> "video"] ELSE << >>
  /\ pg_selected' = 0
  /\ pg_scroll' = 0
  /\ pg_loading' = FALSE
  /\ UNCHANGED <<pg_page, pg_input_mode, pg_query, beside_page>>

PageNext ==
  \/ SearchKeyChar
  \/ SearchKeyBackspace
  \/ SearchKeyEnter
  \/ SearchKeyMode
  \/ \E key \in {"j", "k"} : SearchKeyMove(key)
  \/ \E results \in ResultLists : SetResults(results)
  \/ PageSetError
  \/ \E key \in {"j", "k"} : DynamicKeyMove(key)
  \/ DynamicKeyRefresh
  \/ \E items \in FeedLists : SetFeed(items)
  \/ \E key \in {"j", "k", "l", "h"} : PageHomeKeyMove(key)
  \/ \E r \in RecommendResults : PageHomeRefresh(r)

PageSpec == PageInit /\ [][PageNext]_vars

\* C30: on the Search, Dynamic and Home pages, after any sequence of
\* navigation keys, refreshes and loads, the selected index is never below 0
\* and is a position of the item list whenever the list is not empty.
C30_SelectionInRange ==
  /\ pg_selected >= 0
  /\ pg_items # << >> => pg_selected < Len(pg_items)

\* the selection stands on the last of several items of a dynamic feed
C30_Witness ==
  /\ pg_page = "Dynamic"
  /\ Len(pg_items) >= 2
  /\ pg_selected = Len(pg_items) - 1
  /\ ~pg_loading

====
